---- MODULE Spec2Model ----
(***************************************************************************)
(* Media Mirror Dashboard (dashboard/server.py): the configuration store,  *)
(* the shared state document and the worker process supervisor.            *)
(*                                                                         *)
(* Text is modelled at character level: a string is a sequence of          *)
(* one-character strings, a file is [exists, data].                        *)
(***************************************************************************)
EXTENDS Integers, Sequences, FiniteSets, TLC

VARIABLES
    cfgFile,    \* CONFIG_FILE on disk: [exists, data]
    fnLast,     \* the last config-store call applied: [op, updates, before]
    fnOps,      \* number of config-store calls applied so far
    creq,       \* the POST /api/config requests: id -> [pc, updates, new_lines]
    cfgOrig,    \* CONFIG_FILE as it was when the requests were issued
    cfgSeen,    \* what the external pipeline last read from CONFIG_FILE
    post,       \* the last POST /api/config handled: [body, code, payload]
    stateFile,  \* STATE_FILE on disk: [kind, doc]
    hpc,        \* where the handler of /api/pause or /api/resume stands
    hop,        \* the request being handled: "pause" or "resume"
    hstate,     \* the handler's local `state`
    hresp,      \* the outcome of the last request handled
    readerSaw,  \* what an external reader last read from STATE_FILE
    procs,      \* the process table: pid -> what runs under it
    pidFile,    \* INSTALL_DIR/runner.pid: [kind, pid]
    spc,        \* where the handler of /api/runner/stop or restart stands
    spid,       \* stop_runner's local `pid` (0 for None)
    sop,        \* the request stop_runner runs for: "stop" or "restart"
    sresp       \* the outcome of the last runner request handled

cfgVars == <<cfgFile, fnLast, fnOps, creq, cfgOrig, cfgSeen, post>>

stVars == <<stateFile, hpc, hop, hstate, hresp, readerSaw>>

supVars == <<procs, pidFile, spc, spid, sop, sresp>>

vars == <<cfgFile, fnLast, fnOps, creq, cfgOrig, cfgSeen, post,
          stateFile, hpc, hop, hstate, hresp, readerSaw,
          procs, pidFile, spc, spid, sop, sresp>>

---------------------------------------------------------------------------
(* Bounds *)

MaxLines == 2      \* lines in an initial configuration file
MaxOps == 1        \* config-store calls applied in a row
MaxJobs == 1       \* jobs in a state document
MaxPid == 3        \* process ids are 1..MaxPid
MaxValue == 4      \* characters in the value of an assignment read
MaxMembers == 2    \* members of the JSON object of a POST body
MaxEtaJobs == 2    \* jobs in a state document whose ETA is computed

---------------------------------------------------------------------------
(* Characters and Python's str helpers *)

NL == "\n"
DQ == "\""
SQ == "'"

Whitespace == {" ", NL, "\t", "\r"}

RECURSIVE LStrip(_, _)
LStrip(s, chars) ==
    IF s # <<>> /\ Head(s) \in chars THEN LStrip(Tail(s), chars) ELSE s

RECURSIVE RStrip(_, _)
RStrip(s, chars) ==
    IF s # <<>> /\ s[Len(s)] \in chars
    THEN RStrip(SubSeq(s, 1, Len(s) - 1), chars)
    ELSE s

\* str.strip() and str.strip(chars)
StripChars(s, chars) == LStrip(RStrip(s, chars), chars)

Strip(s) == StripChars(s, Whitespace)

\* c in s
Contains(s, c) == \E i \in 1..Len(s) : s[i] = c

\* s.find(c) + 1: the first position of c in s, 0 when absent
Find(s, c) ==
    IF Contains(s, c)
    THEN CHOOSE i \in 1..Len(s) : s[i] = c /\ \A j \in 1..(i - 1) : s[j] # c
    ELSE 0

StartsWith(s, c) == s # <<>> /\ Head(s) = c

\* f.readlines(): the lines of the data, each keeping its newline
RECURSIVE ReadLines(_)
ReadLines(data) ==
    IF data = <<>> THEN <<>>
    ELSE LET n == Find(data, NL)
         IN  IF n = 0 THEN <<data>>
             ELSE <<SubSeq(data, 1, n)>> \o ReadLines(SubSeq(data, n + 1, Len(data)))

\* "\n".join(line.rstrip("\n") for line in lines) + "\n": every line ends in
\* exactly one newline, also a last line that had none
RECURSIVE WriteLinesTerminated(_)
WriteLinesTerminated(lines) ==
    IF lines = <<>> THEN <<>>
    ELSE RStrip(Head(lines), {NL}) \o <<NL>> \o WriteLinesTerminated(Tail(lines))

\* f.writelines(lines): the lines one after the other, nothing added
RECURSIVE WriteLines(_)
WriteLines(lines) ==
    IF lines = <<>> THEN <<>> ELSE Head(lines) \o WriteLines(Tail(lines))

---------------------------------------------------------------------------
(* An update mapping is a Python dict: a sequence of [k, v] items with     *)
(* distinct keys, in insertion order.                                      *)

DictKeys(d) == {d[i].k : i \in 1..Len(d)}

DictGet(d, key) == d[CHOOSE i \in 1..Len(d) : d[i].k = key].v

\* d[key] = val: an existing key keeps its place, a new one goes last
DictSet(d, key, val) ==
    IF key \in DictKeys(d)
    THEN [i \in 1..Len(d) |-> IF d[i].k = key THEN [k |-> key, v |-> val] ELSE d[i]]
    ELSE Append(d, [k |-> key, v |-> val])

---------------------------------------------------------------------------
(* read_config *)

\* the test of lines 34 and 55, on the stripped line
IsAssignment(stripped) ==
    stripped # <<>> /\ ~StartsWith(stripped, "#") /\ Contains(stripped, "=")

\* line 35-36: key, _, val = line.partition("="); key.strip()
PartitionKey(stripped) == Strip(SubSeq(stripped, 1, Find(stripped, "=") - 1))

\* line 36: val.strip().strip('"').strip("'")
PartitionVal(stripped) ==
    StripChars(StripChars(Strip(SubSeq(stripped, Find(stripped, "=") + 1, Len(stripped))),
                          {DQ}), {SQ})

RECURSIVE ReadConfigLines(_, _)
ReadConfigLines(lines, config) ==
    IF lines = <<>> THEN config
    ELSE LET line == Strip(Head(lines))
         IN  ReadConfigLines(Tail(lines),
                 IF IsAssignment(line)
                 THEN DictSet(config, PartitionKey(line), PartitionVal(line))
                 ELSE config)

read_config(file) ==
    IF file.exists THEN ReadConfigLines(ReadLines(file.data), <<>>) ELSE <<>>

---------------------------------------------------------------------------
(* write_config *)

\* line 56: stripped.split("=", 1)[0].strip()
SplitKey(stripped) == Strip(SubSeq(stripped, 1, Find(stripped, "=") - 1))

\* lines 58 and 66: f'{key}="{val}"\n'
FormatLine(key, val) == key \o <<"=", DQ>> \o val \o <<DQ, NL>>

\* lines 53-61, with the continue of line 60 left out: the old line is kept
\* after its replacement
RECURSIVE RewriteLinesNoContinue(_, _)
RewriteLinesNoContinue(lines, updates) ==
    IF lines = <<>> THEN <<>>
    ELSE LET line == Head(lines)
             stripped == Strip(line)
             hit == IsAssignment(stripped) /\ SplitKey(stripped) \in DictKeys(updates)
         IN  (IF hit
              THEN <<FormatLine(SplitKey(stripped), DictGet(updates, SplitKey(stripped))), line>>
              ELSE <<line>>)
             \o RewriteLinesNoContinue(Tail(lines), updates)

\* lines 53-61: the template's lines, each updated key's line rewritten
RECURSIVE RewriteLines(_, _)
RewriteLines(lines, updates) ==
    IF lines = <<>> THEN <<>>
    ELSE LET line == Head(lines)
             stripped == Strip(line)
             hit == IsAssignment(stripped) /\ SplitKey(stripped) \in DictKeys(updates)
         IN  <<IF hit
               THEN FormatLine(SplitKey(stripped), DictGet(updates, SplitKey(stripped)))
               ELSE line>>
             \o RewriteLines(Tail(lines), updates)

\* line 59: the keys found in the template
UpdatedKeys(lines, updates) ==
    {SplitKey(Strip(lines[i])) : i \in {j \in 1..Len(lines) : IsAssignment(Strip(lines[j]))}}
        \cap DictKeys(updates)

\* lines 64-66: one line per key that was not in the template, in dict order
RECURSIVE AppendedLines(_, _)
AppendedLines(updates, updated_keys) ==
    IF updates = <<>> THEN <<>>
    ELSE (IF Head(updates).k \notin updated_keys
          THEN <<FormatLine(Head(updates).k, Head(updates).v)>>
          ELSE <<>>)
         \o AppendedLines(Tail(updates), updated_keys)

\* lines 44-49: the template, empty for a missing file
TemplateLines(file) == IF file.exists THEN ReadLines(file.data) ELSE <<>>

\* lines 51-66: new_lines
NewLines(lines, updates) ==
    RewriteLines(lines, updates) \o AppendedLines(updates, UpdatedKeys(lines, updates))

\* the whole of write_config, run without interruption
write_config(file, updates) ==
    [exists |-> TRUE, data |-> WriteLines(NewLines(TemplateLines(file), updates))]

---------------------------------------------------------------------------
(* The inputs: configuration files and update mappings *)

Missing == [exists |-> FALSE, data |-> <<>>]

\* the texts a line of an initial file is drawn from
LineTexts ==
    { <<"A", "=", "x">>,                        \* A=x
      <<"B", "=", SQ, "y", SQ>>,                \* B='y'
      <<"#", "A", "=", "x">>,                   \* #A=x   a commented-out key
      <<>>,                                     \* a blank line
      <<" ", "A", " ", "=", DQ, "y", DQ>>,      \*  A ="y"  indented, spaced, quoted
      <<"A">> }                                 \* A      no "=": not an assignment

\* the lines joined by newlines; the last line ends in one iff terminated
RECURSIVE JoinLines(_, _)
JoinLines(texts, terminated) ==
    IF texts = <<>> THEN <<>>
    ELSE IF Len(texts) = 1
         THEN Head(texts) \o (IF terminated THEN <<NL>> ELSE <<>>)
         ELSE Head(texts) \o <<NL>> \o JoinLines(Tail(texts), terminated)

ConfigFiles ==
    {Missing} \cup
    { [exists |-> TRUE, data |-> JoinLines(texts, t)] :
        texts \in UNION {[1..n -> LineTexts] : n \in 0..MaxLines}, t \in BOOLEAN }

UpdateKeys == {<<"A">>, <<"B">>}
UpdateVals == {<<"x">>, <<"z">>}
UpdateItems == [k : UpdateKeys, v : UpdateVals]

\* the dicts over UpdateKeys, in either insertion order
UpdateDicts ==
    {<<>>} \cup {<<i>> : i \in UpdateItems}
           \cup {d \in {<<i, j>> : i \in UpdateItems, j \in UpdateItems} : d[1].k # d[2].k}

NoCall == [op |-> "none", updates |-> <<>>, before |-> Missing]
NoRequests == [r \in {1, 2} |-> [pc |-> "none", updates |-> <<>>, new_lines |-> <<>>]]
NotSeen == [read |-> FALSE, exists |-> FALSE, data |-> <<>>]

---------------------------------------------------------------------------
(* The body of POST /api/config.  The bytes received are                   *)
(*   invalid   not JSON                                                    *)
(*   empty     no bytes at all                                             *)
(*   scalar    JSON, but no object (a list, a string, a number, null)      *)
(*   object    a JSON object: its members in order, names distinct.        *)
(* A member's value is a JSON string or a JSON integer.                    *)

JsonValues == {[t |-> "str", s |-> <<"x">>, n |-> 0], [t |-> "int", s |-> <<>>, n |-> 720]}

FieldNames ==
    { <<"t", "a", "r", "g", "e", "t", "_", "h", "e", "i", "g", "h", "t">>,
      <<"T", "A", "R", "G", "E", "T", "_", "H", "E", "I", "G", "H", "T">>,
      <<"A">> }

Members ==
    {ms \in UNION {[1..n -> [k : FieldNames, v : JsonValues]] : n \in 0..MaxMembers} :
        \A i, j \in 1..Len(ms) : i # j => ms[i].k # ms[j].k}

Bodies ==
    [kind : {"invalid", "empty", "scalar"}, members : {<<>>}]
        \cup [kind : {"object"}, members : Members]

\* line 301: json.loads(body) raises JSONDecodeError on bytes that are not
\* JSON
PostJsonError(body) == body.kind \in {"invalid", "empty"}

\* a handler that only json.loads can fail: what is no object has no
\* members to map
PostRaisesOnJsonOnly(body) == body.kind \in {"invalid", "empty"}

\* lines 301 and 320: json.loads raises on what is not JSON, updates.items()
\* raises AttributeError on what is no object
PostRaises(body) == body.kind # "object"

\* lines 303-318: key_map
key_map ==
    <<
       [k |-> <<"s", "o", "u", "r", "c", "e", "_", "m", "o", "v", "i", "e", "s">>,
        v |-> <<"S", "O", "U", "R", "C", "E", "_", "M", "O", "V", "I", "E", "S">>],
       [k |-> <<"s", "o", "u", "r", "c", "e", "_", "t", "v">>,
        v |-> <<"S", "O", "U", "R", "C", "E", "_", "T", "V">>],
       [k |-> <<"d", "e", "s", "t", "_", "h", "o", "s", "t">>,
        v |-> <<"D", "E", "S", "T", "_", "H", "O", "S", "T">>],
       [k |-> <<"d", "e", "s", "t", "_", "m", "o", "v", "i", "e", "s">>,
        v |-> <<"D", "E", "S", "T", "_", "M", "O", "V", "I", "E", "S">>],
       [k |-> <<"d", "e", "s", "t", "_", "t", "v">>,
        v |-> <<"D", "E", "S", "T", "_", "T", "V">>],
       [k |-> <<"t", "e", "m", "p", "_", "d", "i", "r">>,
        v |-> <<"T", "E", "M", "P", "_", "D", "I", "R">>],
       [k |-> <<"d", "e", "s", "t", "_", "s", "s", "h", "_", "k", "e", "y">>,
        v |-> <<"D", "E", "S", "T", "_", "S", "S", "H", "_", "K", "E", "Y">>],
       [k |-> <<"t", "a", "r", "g", "e", "t", "_", "h", "e", "i", "g", "h", "t">>,
        v |-> <<"T", "A", "R", "G", "E", "T", "_", "H", "E", "I", "G", "H", "T">>],
       [k |-> <<"f", "f", "m", "p", "e", "g", "_", "c", "r", "f">>,
        v |-> <<"F", "F", "M", "P", "E", "G", "_", "C", "R", "F">>],
       [k |-> <<"f", "f", "m", "p", "e", "g", "_", "p", "r", "e", "s", "e", "t">>,
        v |-> <<"F", "F", "M", "P", "E", "G", "_", "P", "R", "E", "S", "E", "T">>],
       [k |-> <<"f", "f", "m", "p", "e", "g", "_", "t", "h", "r", "e", "a", "d", "s">>,
        v |-> <<"F", "F", "M", "P", "E", "G", "_", "T", "H", "R", "E", "A", "D", "S">>],
       [k |-> <<"r", "s", "y", "n", "c", "_", "b", "w", "l", "i", "m", "i", "t">>,
        v |-> <<"R", "S", "Y", "N", "C", "_", "B", "W", "L", "I", "M", "I", "T">>],
       [k |-> <<"s", "c", "a", "n", "_", "i", "n", "t", "e", "r", "v", "a", "l">>,
        v |-> <<"S", "C", "A", "N", "_", "I", "N", "T", "E", "R", "V", "A", "L">>],
       [k |-> <<"d", "a", "s", "h", "b", "o", "a", "r", "d", "_", "p", "o", "r", "t">>,
        v |-> <<"D", "A", "S", "H", "B", "O", "A", "R", "D", "_", "P", "O", "R", "T">>]
    >>

\* line 321: key_map.get(k, k)
KeyMapGet(k) == IF k \in DictKeys(key_map) THEN DictGet(key_map, k) ELSE k

DigitChars == <<"0", "1", "2", "3", "4", "5", "6", "7", "8", "9">>

\* str(n) of a natural number
RECURSIVE StrNat(_)
StrNat(n) ==
    IF n < 10 THEN <<DigitChars[n + 1]>>
    ELSE StrNat(n \div 10) \o <<DigitChars[(n % 10) + 1]>>

\* line 322: str(v)
Str(v) == IF v.t = "str" THEN v.s ELSE StrNat(v.n)

\* lines 319-322: mapped, built member by member
RECURSIVE Mapped(_, _)
Mapped(members, acc) ==
    IF members = <<>> THEN acc
    ELSE Mapped(Tail(members),
                DictSet(acc, KeyMapGet(Head(members).k), Str(Head(members).v)))

\* line 324: list(mapped.keys())
KeyList(d) == [i \in 1..Len(d) |-> d[i].k]

NoPost == [body |-> [kind |-> "none", members |-> <<>>], code |-> 0,
           payload |-> [ok |-> FALSE, error |-> "none", updated |-> <<>>]]

\* the configuration files a POST finds: none, or one line
PostFiles ==
    {Missing} \cup {[exists |-> TRUE, data |-> JoinLines(<<text>>, TRUE)] : text \in LineTexts}

---------------------------------------------------------------------------
(* The shared state document.  STATE_FILE is                               *)
(*   missing    no such file                                               *)
(*   unreadable present, open() fails with PermissionError                 *)
(*   invalid    present, not JSON (such as a document its writer is in     *)
(*              the middle of writing)                                     *)
(*   empty      present, zero bytes: what open(STATE_FILE, "w") leaves     *)
(*   scalar     valid JSON that is not an object (a list, null, a number)  *)
(*   object     a JSON object, doc.                                        *)
(* A doc is the parsed object: jobs, runner and inventory, each present or  *)
(* not.  A job's started and updated are absent (no member, null or ""),   *)
(* bad (a string that is no ISO-8601 time) or a time, in whole seconds.    *)

NoTime == [kind |-> "absent", t |-> 0]

BadTime == [kind |-> "bad", t |-> 0]

Time(t) == [kind |-> "time", t |-> t]

JobStatuses == {"queued", "done", "failed"}

NoStatus == [hasStatus |-> FALSE, status |-> "", started |-> NoTime, updated |-> NoTime]

Jobs ==
    {NoStatus} \cup [hasStatus : {TRUE}, status : JobStatuses,
                     started : {NoTime}, updated : {NoTime}]

NoInventory ==
    [present |-> FALSE, hasSourceTotal |-> FALSE, source_total |-> 0,
     hasDestDone |-> FALSE, dest_done |-> 0]

NoRunner == [status |-> "", paused |-> FALSE]

Runners == [status : {"running"}, paused : BOOLEAN]

\* line 25: the default document
DefaultDoc ==
    [hasJobs |-> TRUE, jobs |-> <<>>,
     hasRunner |-> TRUE, runner |-> [status |-> "unknown", paused |-> FALSE],
     inventory |-> NoInventory]

Docs ==
    { [hasJobs |-> hj, jobs |-> js, hasRunner |-> hr, runner |-> r,
       inventory |-> NoInventory] :
        hj \in BOOLEAN, hr \in BOOLEAN,
        js \in UNION {[1..n -> Jobs] : n \in 0..MaxJobs},
        r \in Runners \cup {NoRunner} }

\* the docs in canonical form: an absent member has its placeholder value
WellFormedDocs ==
    { d \in Docs : /\ (~d.hasJobs => d.jobs = <<>>)
                   /\ (d.hasRunner <=> d.runner # NoRunner) }

FileOf(kind) == [kind |-> kind, doc |-> DefaultDoc]

ObjectFile(doc) == [kind |-> "object", doc |-> doc]

\* what STATE_FILE can hold when no write of the dashboard is under way
StateFiles ==
    {FileOf(k) : k \in {"missing", "unreadable", "invalid", "scalar"}}
        \cup {ObjectFile(d) : d \in WellFormedDocs}

\* what the external pipeline leaves in STATE_FILE: a document, or a part of
\* one while it is writing
PipelineFiles == {FileOf("invalid")} \cup {ObjectFile(d) : d \in WellFormedDocs}

\* lines 20-25: open() raising anything but FileNotFoundError leaves read_state
ReadStateRaises(file) == file.kind = "unreadable"

\* lines 20-25: the parsed document, or the default document when the file is
\* missing or json.load raises JSONDecodeError
read_state(file) ==
    CASE file.kind = "object" -> [isObject |-> TRUE, doc |-> file.doc]
      [] file.kind = "scalar" -> [isObject |-> FALSE, doc |-> DefaultDoc]
      [] OTHER                -> [isObject |-> TRUE, doc |-> DefaultDoc]

NoState == [isObject |-> TRUE, doc |-> DefaultDoc]

\* state["runner"] = {"paused": b}: the runner object replaced, its status lost
SetPausedReplacingRunner(state, b) ==
    [state EXCEPT !.doc.runner = [status |-> "", paused |-> b]]

\* lines 242 and 249: state["runner"]["paused"] = b
SetPaused(state, b) == [state EXCEPT !.doc.runner.paused = b]

\* lines 242 and 249 raise TypeError on a non-object, KeyError without "runner"
SetPausedRaises(state) == ~state.isObject \/ ~state.doc.hasRunner

\* [j for j in jobs if j["status"] in statuses]
RECURSIVE JobsWithStatus(_, _)
JobsWithStatus(jobs, statuses) ==
    IF jobs = <<>> THEN <<>>
    ELSE (IF Head(jobs).status \in statuses THEN <<Head(jobs)>> ELSE <<>>)
         \o JobsWithStatus(Tail(jobs), statuses)

ActiveCap == 50
RecentCap == 20
FailedCap == 20

\* xs[:n]
FirstN(xs, n) == SubSeq(xs, 1, IF Len(xs) < n THEN Len(xs) ELSE n)

\* xs[-n:]
LastN(xs, n) == SubSeq(xs, IF Len(xs) < n THEN 1 ELSE Len(xs) - n + 1, Len(xs))

\* lines 171-173 raise TypeError on a non-object, KeyError without "jobs" or
\* on a job without "status"
StatusRaises(state) ==
    \/ ~state.isObject
    \/ ~state.doc.hasJobs
    \/ \E i \in 1..Len(state.doc.jobs) : ~state.doc.jobs[i].hasStatus

\* lines 177-180: the done jobs whose started and updated are both truthy
HasTimes(j) ==
    j.status = "done" /\ j.started.kind # "absent" /\ j.updated.kind # "absent"

DoneJobsWithTimes(jobs) == SelectSeq(jobs, HasTimes)

\* lines 186-187: datetime.fromisoformat raises ValueError on a string that
\* is no ISO-8601 time
EtaRaises(jobs) ==
    \E i \in 1..Len(DoneJobsWithTimes(jobs)) :
        \/ DoneJobsWithTimes(jobs)[i].started.kind = "bad"
        \/ DoneJobsWithTimes(jobs)[i].updated.kind = "bad"

\* lines 184-189: sum(times), times being (end - start).total_seconds()
RECURSIVE SumTimes(_)
SumTimes(jobs) ==
    IF jobs = <<>> THEN 0
    ELSE (Head(jobs).updated.t - Head(jobs).started.t) + SumTimes(Tail(jobs))

\* lines 197, 201, 202: round() of num/den, den > 0: to the nearest integer,
\* a tie to the even one
RoundHalfEven(num, den) ==
    LET q == num \div den
        r == num % den
    IN  IF 2 * r < den THEN q
        ELSE IF 2 * r > den THEN q + 1
        ELSE IF q % 2 = 0 THEN q ELSE q + 1

\* lines 191-192: inventory.get(name, 0)
SourceTotal(inv) == IF inv.present /\ inv.hasSourceTotal THEN inv.source_total ELSE 0

DestDone(inv) == IF inv.present /\ inv.hasDestDone THEN inv.dest_done ELSE 0

\* a count of the session that leaves the skipped jobs out
TotalCompletedDoneOnly(doc) ==
    DestDone(doc.inventory) + Len(JobsWithStatus(doc.jobs, {"done"}))

\* lines 193-194: dest_done + the number of jobs done or skipped
TotalCompleted(doc) ==
    DestDone(doc.inventory) + Len(JobsWithStatus(doc.jobs, {"done", "skipped"}))

\* line 195: max(0, source_total - total_completed) if source_total else 0
Remaining(doc) ==
    IF SourceTotal(doc.inventory) # 0 /\ SourceTotal(doc.inventory) > TotalCompleted(doc)
    THEN SourceTotal(doc.inventory) - TotalCompleted(doc)
    ELSE 0

\* line 176: eta = {}
EmptyEta == <<>>

\* lines 176-205: eta stays {} when no done job has both times or when
\* anything in the try block raises.  The hours and days, rounded to one
\* decimal, are kept in tenths.
Eta(doc) ==
    IF DoneJobsWithTimes(doc.jobs) = <<>> \/ EtaRaises(doc.jobs) THEN EmptyEta
    ELSE LET total == SumTimes(DoneJobsWithTimes(doc.jobs))
             n == Len(DoneJobsWithTimes(doc.jobs))
         IN  [avg_per_file_secs |-> RoundHalfEven(total, n),
              source_total |-> SourceTotal(doc.inventory),
              completed |-> TotalCompleted(doc),
              remaining |-> Remaining(doc),
              est_remaining_hours |-> RoundHalfEven(10 * Remaining(doc) * total, 3600 * n),
              est_remaining_days |-> RoundHalfEven(10 * Remaining(doc) * total, 86400 * n)]

\* lines 171-214: the part of the /api/status response taken from
\* the state document
StatusResponse(state) ==
    [kind |-> "status",
     runner |-> [present |-> state.doc.hasRunner, value |-> state.doc.runner],
     eta |-> Eta(state.doc),
     active_jobs |-> FirstN(JobsWithStatus(state.doc.jobs,
                                {"converting", "transferring", "queued"}), ActiveCap),
     recent_done |-> LastN(JobsWithStatus(state.doc.jobs, {"done"}), RecentCap),
     failed |-> FirstN(JobsWithStatus(state.doc.jobs, {"failed"}), FailedCap)]

NoResponse == [kind |-> "none"]

\* an exception leaves do_GET: the server logs it and sends no response
Unhandled == [kind |-> "exception"]

\* lines 245 and 252
PausedResponse(b) == [kind |-> "paused", ok |-> TRUE, paused |-> b]

Target(op) == op = "pause"

NothingRead == [kind |-> "none", inWrite |-> FALSE]

StateAtRest ==
    /\ stateFile = FileOf("missing")
    /\ hpc = "idle"
    /\ hop = "pause"
    /\ hstate = NoState
    /\ hresp = NoResponse
    /\ readerSaw = NothingRead

---------------------------------------------------------------------------
(* The process supervisor.  Under a pid runs                               *)
(*   none      nothing                                                     *)
(*   starting  a worker (bash INSTALL_DIR/media-mirror.sh) that has not    *)
(*             yet written its PID file                                    *)
(*   worker    a worker that has written its PID file                      *)
(*   other     a process that is no worker and that the dashboard's user   *)
(*             may signal                                                  *)
(*   foreign   a process that is no worker and that the dashboard's user   *)
(*             may not signal (os.kill raises PermissionError).            *)
(* The PID file is missing, garbage (not a number) or holds a pid.         *)

Pids == 1..MaxPid

WorkerKinds == {"starting", "worker"}

OtherKinds == {"other", "foreign"}

Workers(table) == {p \in Pids : table[p] \in WorkerKinds}

NoPidFile == [kind |-> "missing", pid |-> 0]

PidFiles ==
    {NoPidFile, [kind |-> "garbage", pid |-> 0]} \cup [kind : {"pid"}, pid : Pids]

\* a probe that trusts the PID file without asking for the process
get_runner_pid_unprobed(file, table) ==
    IF file.kind = "pid" THEN file.pid ELSE 0

\* lines 111-119: the pid in the PID file if os.kill(pid, 0) succeeds, that
\* is if a process runs under it that the user may signal, else None (0):
\* FileNotFoundError, ValueError, ProcessLookupError and PermissionError are
\* all answered with None
get_runner_pid(file, table) ==
    IF file.kind = "pid" /\ table[file.pid] \notin {"none", "foreign"}
    THEN file.pid ELSE 0

\* lines 141-146: pkill -9 -f INSTALL_DIR/media-mirror.sh kills every process
\* with the worker's command line; when pkill cannot be run or times out the
\* exception is swallowed and nothing is killed
Pkill(table, ran) ==
    IF ran THEN [p \in Pids |-> IF table[p] \in WorkerKinds THEN "none" ELSE table[p]]
    ELSE table

\* lines 148-152: os.kill(pid, SIGKILL) when pid is not None; a pid nothing
\* runs under raises ProcessLookupError and a process of another user
\* PermissionError, both swallowed
KillPid(table, pid) ==
    IF pid # 0 /\ table[pid] # "foreign" THEN [table EXCEPT ![pid] = "none"]
    ELSE table

NoRunnerResponse == [op |-> "none", ok |-> FALSE, pid |-> 0]

SupervisorAtRest ==
    /\ procs = [p \in Pids |-> "none"]
    /\ pidFile = NoPidFile
    /\ spc = "idle"
    /\ spid = 0
    /\ sop = "stop"
    /\ sresp = NoRunnerResponse

---------------------------------------------------------------------------
(* The configuration store called directly: write_config(updates) and the  *)
(* round trip write_config(read_config()), each run without interruption.  *)

InitConfigFn ==
    /\ cfgFile \in ConfigFiles
    /\ fnLast = NoCall
    /\ fnOps = 0
    /\ creq = NoRequests
    /\ cfgOrig = cfgFile
    /\ cfgSeen = NotSeen
    /\ post = NoPost
    /\ StateAtRest
    /\ SupervisorAtRest

FnWrite(updates) ==
    /\ fnOps < MaxOps
    /\ cfgFile' = write_config(cfgFile, updates)
    /\ fnLast' = [op |-> "write", updates |-> updates, before |-> cfgFile]
    /\ fnOps' = fnOps + 1
    /\ UNCHANGED <<creq, cfgOrig, cfgSeen, post, stVars, supVars>>

FnRoundTrip ==
    /\ fnOps < MaxOps
    /\ cfgFile' = write_config(cfgFile, read_config(cfgFile))
    /\ fnLast' = [op |-> "roundtrip", updates |-> read_config(cfgFile), before |-> cfgFile]
    /\ fnOps' = fnOps + 1
    /\ UNCHANGED <<creq, cfgOrig, cfgSeen, post, stVars, supVars>>

NextConfigFn ==
    \/ \E updates \in UpdateDicts : FnWrite(updates)
    \/ FnRoundTrip

SpecConfigFn == InitConfigFn /\ [][NextConfigFn]_vars

---------------------------------------------------------------------------
(* read_config called on a file of one assignment, A=<value>, the value     *)
(* being any string of quote characters and the letter v.                   *)

QuotedValues == UNION {[1..n -> {DQ, SQ, "v"}] : n \in 0..MaxValue}

ValueFile(val) == [exists |-> TRUE, data |-> <<"A", "=">> \o val \o <<NL>>]

\* the value as it stands in the file
RawValue(file) == SubSeq(file.data, 3, Len(file.data) - 1)

InitReadConfig ==
    /\ cfgFile \in {ValueFile(val) : val \in QuotedValues}
    /\ fnLast = NoCall
    /\ fnOps = 0
    /\ creq = NoRequests
    /\ cfgOrig = cfgFile
    /\ cfgSeen = NotSeen
    /\ post = NoPost
    /\ StateAtRest
    /\ SupervisorAtRest

\* lines 28-39: read_config()
FnRead ==
    /\ fnOps < MaxOps
    /\ fnLast' = [op |-> "read", updates |-> read_config(cfgFile), before |-> cfgFile]
    /\ fnOps' = fnOps + 1
    /\ UNCHANGED <<cfgFile, creq, cfgOrig, cfgSeen, post, stVars, supVars>>

NextReadConfig == FnRead

SpecReadConfig == InitReadConfig /\ [][NextReadConfig]_vars

---------------------------------------------------------------------------
(* POST /api/config, one request at a time, each handled without           *)
(* interruption.                                                           *)

InitPost ==
    /\ cfgFile \in PostFiles
    /\ fnLast = NoCall
    /\ fnOps = 0
    /\ creq = NoRequests
    /\ cfgOrig = cfgFile
    /\ cfgSeen = NotSeen
    /\ post = NoPost
    /\ StateAtRest
    /\ SupervisorAtRest

\* lines 297-326: do_POST on /api/config
DoPost(body) ==
    /\ fnOps < MaxOps
    /\ IF PostRaises(body)
       THEN /\ post' = [body |-> body, code |-> 400,
                        payload |-> [ok |-> FALSE,
                                     error |-> IF PostJsonError(body)
                                               THEN "JSONDecodeError"
                                               ELSE "AttributeError",
                                     updated |-> <<>>]]
            /\ fnLast' = [op |-> "post", updates |-> <<>>, before |-> cfgFile]
            /\ UNCHANGED cfgFile
       ELSE /\ cfgFile' = write_config(cfgFile, Mapped(body.members, <<>>))
            /\ post' = [body |-> body, code |-> 200,
                        payload |-> [ok |-> TRUE, error |-> "none",
                                     updated |-> KeyList(Mapped(body.members, <<>>))]]
            /\ fnLast' = [op |-> "post", updates |-> Mapped(body.members, <<>>),
                          before |-> cfgFile]
    /\ fnOps' = fnOps + 1
    /\ UNCHANGED <<creq, cfgOrig, cfgSeen, stVars, supVars>>

NextPost == \E body \in Bodies : DoPost(body)

SpecPost == InitPost /\ [][NextPost]_vars

---------------------------------------------------------------------------
(* POST /api/config: two requests issued at once to the server of lines    *)
(* 342-346, and the external pipeline reading CONFIG_FILE at any moment.   *)
(* A request is queued (in the listen backlog), accepted (in do_POST),     *)
(* computed (new_lines built), opened (CONFIG_FILE opened for writing) or   *)
(* done (written, closed and answered).                                    *)

Requests == {1, 2}

\* the update mappings of the two requests: one key each
RequestDicts == {d \in UpdateDicts : Len(d) = 1}

InHandler(r) == creq[r].pc \in {"accepted", "computed", "opened"}

\* socketserver.ThreadingTCPServer: a thread per request, so a request is
\* taken while another is still in its handler
ServerIdleThreaded == TRUE

\* socketserver.TCPServer.serve_forever: the next request is taken only when
\* the handler of the previous one has returned
ServerIdle == \A r \in Requests : ~InHandler(r)

InitConfig ==
    /\ cfgFile \in ConfigFiles
    /\ fnLast = NoCall
    /\ fnOps = 0
    /\ creq \in [Requests -> [pc : {"queued"}, updates : RequestDicts, new_lines : {<<>>}]]
    /\ cfgOrig = cfgFile
    /\ cfgSeen = NotSeen
    /\ post = NoPost
    /\ StateAtRest
    /\ SupervisorAtRest

\* the server takes request r and do_POST maps its body (lines 297-322)
Accept(r) ==
    /\ creq[r].pc = "queued"
    /\ ServerIdle
    /\ creq' = [creq EXCEPT ![r].pc = "accepted"]
    /\ UNCHANGED <<cfgFile, fnLast, fnOps, cfgOrig, cfgSeen, post, stVars, supVars>>

\* write_config lines 44-66: read the template, build new_lines
WcRead(r) ==
    /\ creq[r].pc = "accepted"
    /\ creq' = [creq EXCEPT ![r].pc = "computed",
                            ![r].new_lines = NewLines(TemplateLines(cfgFile), creq[r].updates)]
    /\ UNCHANGED <<cfgFile, fnLast, fnOps, cfgOrig, cfgSeen, post, stVars, supVars>>

\* write_config line 68: open(CONFIG_FILE, "w") creates or truncates the file
WcOpen(r) ==
    /\ creq[r].pc = "computed"
    /\ cfgFile' = [exists |-> TRUE, data |-> <<>>]
    /\ creq' = [creq EXCEPT ![r].pc = "opened"]
    /\ UNCHANGED <<fnLast, fnOps, cfgOrig, cfgSeen, post, stVars, supVars>>

\* write_config line 69 and the end of the with block: the lines reach the
\* file when it is closed; then the response (line 324)
WcWriteClose(r) ==
    /\ creq[r].pc = "opened"
    /\ cfgFile' = [exists |-> TRUE, data |-> WriteLines(creq[r].new_lines)]
    /\ creq' = [creq EXCEPT ![r].pc = "done"]
    /\ UNCHANGED <<fnLast, fnOps, cfgOrig, cfgSeen, post, stVars, supVars>>

\* the external pipeline reads CONFIG_FILE
PipelineReadsConfig ==
    /\ cfgSeen' = [read |-> TRUE, exists |-> cfgFile.exists, data |-> cfgFile.data]
    /\ UNCHANGED <<cfgFile, fnLast, fnOps, creq, cfgOrig, post, stVars, supVars>>

NextConfig ==
    \/ \E r \in Requests : Accept(r)
    \/ \E r \in Requests : WcRead(r)
    \/ \E r \in Requests : WcOpen(r)
    \/ \E r \in Requests : WcWriteClose(r)
    \/ PipelineReadsConfig

SpecConfig == InitConfig /\ [][NextConfig]_vars

---------------------------------------------------------------------------
(* /api/status, /api/pause and /api/resume, handled one at a time by the   *)
(* server, with the external pipeline writing STATE_FILE and an external   *)
(* reader reading it at any moment.                                        *)

ConfigAtRest ==
    /\ cfgFile = Missing
    /\ fnLast = NoCall
    /\ fnOps = 0
    /\ creq = NoRequests
    /\ cfgOrig = Missing
    /\ cfgSeen = NotSeen
    /\ post = NoPost

InitState ==
    /\ stateFile \in StateFiles
    /\ hpc = "idle"
    /\ hop = "pause"
    /\ hstate = NoState
    /\ hresp = NoResponse
    /\ readerSaw = NothingRead
    /\ ConfigAtRest
    /\ SupervisorAtRest

\* lines 166-235: GET /api/status
ApiStatus ==
    /\ hpc = "idle"
    /\ hresp' = IF ReadStateRaises(stateFile) \/ StatusRaises(read_state(stateFile))
                THEN Unhandled
                ELSE StatusResponse(read_state(stateFile))
    /\ UNCHANGED <<stateFile, hpc, hop, hstate, readerSaw, cfgVars, supVars>>

\* lines 241-242 and 248-249: read the document and set runner.paused
ApiPauseBegin(op) ==
    /\ hpc = "idle"
    /\ hop' = op
    /\ IF ReadStateRaises(stateFile) \/ SetPausedRaises(read_state(stateFile))
       THEN /\ hresp' = Unhandled
            /\ UNCHANGED <<hpc, hstate>>
       ELSE /\ hstate' = SetPaused(read_state(stateFile), Target(op))
            /\ hpc' = "loaded"
            /\ hresp' = NoResponse
    /\ UNCHANGED <<stateFile, readerSaw, cfgVars, supVars>>

\* lines 243 and 250: open(STATE_FILE, "w") creates or truncates the file
ApiPauseOpen ==
    /\ hpc = "loaded"
    /\ stateFile' = FileOf("empty")
    /\ hpc' = "opened"
    /\ UNCHANGED <<hop, hstate, hresp, readerSaw, cfgVars, supVars>>

\* lines 244-245 and 251-252: json.dump, the end of the with block, the
\* response.  The document reaches the file when it is closed.  When the
\* pipeline has written the file since it was opened, the bytes go over the
\* pipeline's from offset 0 (the document, or a mix that is not JSON), or to
\* an unlinked file when the pipeline replaced the file by renaming.
ApiPauseDumpClose ==
    /\ hpc = "opened"
    /\ stateFile' \in IF stateFile.kind = "empty"
                      THEN {ObjectFile(hstate.doc)}
                      ELSE {ObjectFile(hstate.doc), FileOf("invalid"), stateFile}
    /\ hresp' = PausedResponse(Target(hop))
    /\ hpc' = "idle"
    /\ hstate' = NoState
    /\ UNCHANGED <<hop, readerSaw, cfgVars, supVars>>

\* the external pipeline writes STATE_FILE
PipelineWrites ==
    /\ stateFile' \in PipelineFiles \ {stateFile}
    /\ UNCHANGED <<hpc, hop, hstate, hresp, readerSaw, cfgVars, supVars>>

\* an external reader reads STATE_FILE
ReaderReads ==
    /\ readerSaw' = [kind |-> stateFile.kind, inWrite |-> hpc = "opened"]
    /\ UNCHANGED <<stateFile, hpc, hop, hstate, hresp, cfgVars, supVars>>

NextState ==
    \/ ApiStatus
    \/ \E op \in {"pause", "resume"} : ApiPauseBegin(op)
    \/ ApiPauseOpen
    \/ ApiPauseDumpClose
    \/ PipelineWrites
    \/ ReaderReads

SpecState == InitState /\ [][NextState]_vars

---------------------------------------------------------------------------
(* /api/status on a state document with jobs that carry times and with an  *)
(* inventory, the document at rest.                                        *)

EtaJobs ==
    {NoStatus}
        \cup [hasStatus : {TRUE}, status : {"queued", "skipped", "failed"},
              started : {NoTime}, updated : {NoTime}]
        \cup [hasStatus : {TRUE}, status : {"done"},
              started : {NoTime, BadTime, Time(0)},
              updated : {NoTime, BadTime, Time(0), Time(1), Time(2)}]

Inventories ==
    {NoInventory} \cup
    { [present |-> TRUE, hasSourceTotal |-> s.has, source_total |-> s.n,
       hasDestDone |-> d.has, dest_done |-> d.n] :
        s \in {[has |-> FALSE, n |-> 0], [has |-> TRUE, n |-> 0],
               [has |-> TRUE, n |-> 1], [has |-> TRUE, n |-> 5]},
        d \in {[has |-> FALSE, n |-> 0], [has |-> TRUE, n |-> 2]} }

EtaDocs ==
    { [hasJobs |-> TRUE, jobs |-> js, hasRunner |-> TRUE,
       runner |-> [status |-> "running", paused |-> FALSE], inventory |-> inv] :
        js \in UNION {[1..n -> EtaJobs] : n \in 0..MaxEtaJobs},
        inv \in Inventories }

InitEta ==
    /\ stateFile \in {ObjectFile(d) : d \in EtaDocs}
    /\ hpc = "idle"
    /\ hop = "pause"
    /\ hstate = NoState
    /\ hresp = NoResponse
    /\ readerSaw = NothingRead
    /\ ConfigAtRest
    /\ SupervisorAtRest

NextEta == ApiStatus

SpecEta == InitEta /\ [][NextEta]_vars

---------------------------------------------------------------------------
(* /api/runner/start, /api/runner/stop, /api/runner/restart and the        *)
(* runner_pid of /api/status, handled one at a time by the server, with    *)
(* the workers and the other processes of the machine running beside it.   *)

Init ==
    /\ procs \in [Pids -> {"none", "worker", "other", "foreign"}]
    /\ pidFile \in PidFiles
    /\ spc = "idle"
    /\ spid = 0
    /\ sop = "stop"
    /\ sresp = NoRunnerResponse
    /\ ConfigAtRest
    /\ StateAtRest

\* lines 122-134: start_runner.  Popen gives the worker a pid nothing runs
\* under; with the process table full, fork fails and the exception leaves
\* the handler.
start_runner(op) ==
    IF get_runner_pid(pidFile, procs) # 0
    THEN /\ sresp' = [op |-> op, ok |-> FALSE, pid |-> 0]
         /\ UNCHANGED procs
    ELSE IF \A p \in Pids : procs[p] # "none"
         THEN /\ sresp' = [op |-> "exception", ok |-> FALSE, pid |-> 0]
              /\ UNCHANGED procs
         ELSE \E p \in {q \in Pids : procs[q] = "none"} :
                 /\ procs' = [procs EXCEPT ![p] = "starting"]
                 /\ sresp' = [op |-> op, ok |-> TRUE, pid |-> p]

\* lines 254-255: /api/runner/start
StartRunner ==
    /\ spc = "idle"
    /\ start_runner("start")
    /\ UNCHANGED <<pidFile, spc, spid, sop, cfgVars, stVars>>

\* line 209: /api/status reports get_runner_pid() as runner_pid
ProbeLiveness ==
    /\ spc = "idle"
    /\ sresp' = [op |-> "probe",
                 ok |-> get_runner_pid(pidFile, procs) # 0,
                 pid |-> get_runner_pid(pidFile, procs)]
    /\ UNCHANGED <<procs, pidFile, spc, spid, sop, cfgVars, stVars>>

\* line 139: pid = get_runner_pid()
StopCheck ==
    /\ spc = "idle"
    /\ spid' = get_runner_pid(pidFile, procs)
    /\ spc' = "pkill"
    /\ sop' = "stop"
    /\ UNCHANGED <<procs, pidFile, sresp, cfgVars, stVars>>

\* line 261: /api/runner/restart enters stop_runner (line 139)
RestartCheck ==
    /\ spc = "idle"
    /\ spid' = get_runner_pid(pidFile, procs)
    /\ spc' = "pkill"
    /\ sop' = "restart"
    /\ UNCHANGED <<procs, pidFile, sresp, cfgVars, stVars>>

\* lines 140-146: pkill, which runs or fails
StopPkill ==
    /\ spc = "pkill"
    /\ \E ran \in BOOLEAN : procs' = Pkill(procs, ran)
    /\ spc' = "kill"
    /\ UNCHANGED <<pidFile, spid, sop, sresp, cfgVars, stVars>>

\* lines 148-152: kill the process of the PID file
StopKill ==
    /\ spc = "kill"
    /\ procs' = KillPid(procs, spid)
    /\ spc' = "remove"
    /\ UNCHANGED <<pidFile, spid, sop, sresp, cfgVars, stVars>>

\* lines 154-159: remove the PID file and return; lines 257-258 send the
\* result as the response of /api/runner/stop
StopRemove ==
    /\ spc = "remove"
    /\ sop = "stop"
    /\ pidFile' = NoPidFile
    /\ sresp' = [op |-> "stop", ok |-> TRUE, pid |-> spid]
    /\ spc' = "idle"
    /\ spid' = 0
    /\ UNCHANGED <<procs, sop, cfgVars, stVars>>

\* lines 154-159 and 261-262: under /api/runner/restart the result of
\* stop_runner is dropped and the handler sleeps for two seconds
RestartSleep ==
    /\ spc = "remove"
    /\ sop = "restart"
    /\ pidFile' = NoPidFile
    /\ spc' = "sleep"
    /\ spid' = 0
    /\ UNCHANGED <<procs, sop, sresp, cfgVars, stVars>>

\* line 263: after the sleep, the response of /api/runner/restart is the
\* result of start_runner()
RestartStart ==
    /\ spc = "sleep"
    /\ start_runner("restart")
    /\ spc' = "idle"
    /\ sop' = "stop"
    /\ UNCHANGED <<pidFile, spid, cfgVars, stVars>>

\* a worker writes its pid to the PID file as it starts up
WorkerWritesPid(p) ==
    /\ procs[p] = "starting"
    /\ procs' = [procs EXCEPT ![p] = "worker"]
    /\ pidFile' = [kind |-> "pid", pid |-> p]
    /\ UNCHANGED <<spc, spid, sop, sresp, cfgVars, stVars>>

\* a worker dies, leaving the PID file as it is
WorkerDies(p) ==
    /\ procs[p] \in WorkerKinds
    /\ procs' = [procs EXCEPT ![p] = "none"]
    /\ UNCHANGED <<pidFile, spc, spid, sop, sresp, cfgVars, stVars>>

\* the system starts some other process under a free pid
OtherStarts(p) ==
    /\ procs[p] = "none"
    /\ \E k \in OtherKinds : procs' = [procs EXCEPT ![p] = k]
    /\ UNCHANGED <<pidFile, spc, spid, sop, sresp, cfgVars, stVars>>

\* some other process ends
OtherExits(p) ==
    /\ procs[p] \in OtherKinds
    /\ procs' = [procs EXCEPT ![p] = "none"]
    /\ UNCHANGED <<pidFile, spc, spid, sop, sresp, cfgVars, stVars>>

Next ==
    \/ StartRunner
    \/ ProbeLiveness
    \/ StopCheck
    \/ RestartCheck
    \/ StopPkill
    \/ StopKill
    \/ StopRemove
    \/ RestartSleep
    \/ RestartStart
    \/ \E p \in Pids : WorkerWritesPid(p)
    \/ \E p \in Pids : WorkerDies(p)
    \/ \E p \in Pids : OtherStarts(p)
    \/ \E p \in Pids : OtherExits(p)

Spec == Init /\ [][Next]_vars

---------------------------------------------------------------------------
(* Properties of the configuration store *)

IsComment(line) == StartsWith(Strip(line), "#")

IsKeyLine(line) == IsAssignment(Strip(line))

LineKey(line) == SplitKey(Strip(line))

\* the keys of the assignment lines, in file order, duplicates kept
RECURSIVE KeySequence(_)
KeySequence(lines) ==
    IF lines = <<>> THEN <<>>
    ELSE (IF IsKeyLine(Head(lines)) THEN <<LineKey(Head(lines))>> ELSE <<>>)
         \o KeySequence(Tail(lines))

FileKeys(lines) == {LineKey(lines[i]) : i \in {j \in 1..Len(lines) : IsKeyLine(lines[j])}}

\* what the partial-update contract asks of one write_config(u) call that took
\* the lines old to the lines new
PartialUpdateHolds(old, new, u) ==
    /\ Len(new) = Len(old) + Cardinality(DictKeys(u) \ FileKeys(old))
    /\ \A i \in 1..Len(old) :
          /\ i <= Len(new)
          /\ IF IsKeyLine(old[i])
             THEN /\ IsKeyLine(new[i])
                  /\ LineKey(new[i]) = LineKey(old[i])
                  /\ LineKey(old[i]) \notin DictKeys(u) => new[i] = old[i]
             ELSE new[i] = old[i]

\* C6: write_config leaves every line whose key is not in the update
\* byte-identical and in place, keeps every present key at its line, and
\* appends exactly one new line per updated key that was not in the file,
\* also when the file's last line has no trailing newline.
C6_PartialUpdate ==
    fnLast.op = "write" =>
        PartialUpdateHolds(TemplateLines(fnLast.before), ReadLines(cfgFile.data),
                           fnLast.updates)

\* C7: write_config(read_config()) keeps the number of lines, the comment
\* lines at their positions and the order of the keys, duplicates included.
C7_RoundTrip ==
    fnLast.op = "roundtrip" =>
        LET old == TemplateLines(fnLast.before)
            new == ReadLines(cfgFile.data)
        IN  /\ Len(new) = Len(old)
            /\ \A i \in 1..Len(old) :
                  /\ IsComment(old[i]) <=> IsComment(new[i])
                  /\ IsComment(old[i]) => new[i] = old[i]
            /\ KeySequence(new) = KeySequence(old)

\* a round trip has been applied to a file with a duplicated key and no
\* trailing newline, and has changed the file
C7_Witness ==
    /\ fnLast.op = "roundtrip"
    /\ LET old == TemplateLines(fnLast.before)
       IN  /\ \E i, j \in 1..Len(old) :
                 i < j /\ IsKeyLine(old[i]) /\ IsKeyLine(old[j])
                       /\ LineKey(old[i]) = LineKey(old[j])
           /\ old[Len(old)][Len(old[Len(old)])] # NL
           /\ cfgFile # fnLast.before

\* C8: write_config({}) leaves an existing file byte for byte as it was.
C8_EmptyUpdateIdentity ==
    (fnLast.op = "write" /\ fnLast.updates = <<>> /\ fnLast.before.exists) =>
        cfgFile = fnLast.before

\* write_config({}) has been applied to a file whose last line has no newline
C8_Witness ==
    /\ fnLast.op = "write"
    /\ fnLast.updates = <<>>
    /\ fnLast.before.exists
    /\ Len(fnLast.before.data) > 0
    /\ fnLast.before.data[Len(fnLast.before.data)] # NL

\* the file after the two requests' updates applied one after the other,
\* first a then b
AppliedInOrder(a, b) ==
    write_config(write_config(cfgOrig, creq[a].updates), creq[b].updates)

\* every content CONFIG_FILE has between two complete writes
CompleteVersions ==
    {cfgOrig, AppliedInOrder(1, 2), AppliedInOrder(2, 1)}
        \cup {write_config(cfgOrig, creq[r].updates) : r \in Requests}

\* C4: a reader running concurrently with write_config sees the complete old
\* file or the complete new file, never a truncated or partial one.
C4_AtomicConfigWrite ==
    cfgSeen.read =>
        [exists |-> cfgSeen.exists, data |-> cfgSeen.data] \in CompleteVersions

\* C5: the write_config executions of two simultaneous POST /api/config
\* requests never interleave, and the final file is the two updates applied
\* one after the other in some order.
C5_WritesSerialized ==
    /\ Cardinality({r \in Requests : InHandler(r)}) <= 1
    /\ (\A r \in Requests : creq[r].pc = "done") =>
           cfgFile \in {AppliedInOrder(1, 2), AppliedInOrder(2, 1)}

\* both requests are done, they updated different keys, and the file holds
\* both updates: it is neither request's update alone
C5_Witness ==
    /\ \A r \in Requests : creq[r].pc = "done"
    /\ DictKeys(creq[1].updates) # DictKeys(creq[2].updates)
    /\ cfgFile \notin {write_config(cfgOrig, creq[r].updates) : r \in Requests}
    /\ cfgFile # cfgOrig

---------------------------------------------------------------------------
(* Properties of the state document *)

\* C3: while /api/pause or /api/resume writes the state file, a concurrent
\* reader never observes an empty or half-written document.
C3_AtomicStateWrite ==
    readerSaw.inWrite => readerSaw.kind # "empty"

\* the request being begun finds runner.paused already at its target
AlreadyThere ==
    /\ stateFile.kind = "object"
    /\ stateFile.doc.hasRunner
    /\ stateFile.doc.runner.paused = Target(hop')

\* C9: /api/pause with runner.paused already true (/api/resume with it
\* already false) writes back the document that is on disk, unchanged, and
\* answers {ok: true, paused: <the target>}; so does a second application.
C9_IdempotentPause ==
    [][ /\ (hpc = "idle" /\ hpc' = "loaded" /\ AlreadyThere) =>
              hstate'.doc = stateFile.doc
        /\ (hpc = "opened" /\ hpc' = "idle" /\ stateFile.kind = "empty") =>
              /\ stateFile' = ObjectFile(hstate.doc)
              /\ stateFile'.doc.runner.paused = Target(hop)
              /\ hresp' = [kind |-> "paused", ok |-> TRUE, paused |-> Target(hop)]
      ]_vars

\* /api/pause is writing back a document with a job in it that was already
\* paused: the file is open and about to receive what it held before
C9_Witness ==
    /\ hpc = "opened"
    /\ hop = "pause"
    /\ stateFile.kind = "empty"
    /\ hstate.doc.jobs # <<>>
    /\ hstate.doc.runner = [status |-> "running", paused |-> TRUE]

\* the state file conditions the tolerance contract names, for /api/status
BrokenForStatus(file) ==
    \/ file.kind \in {"missing", "unreadable", "invalid", "empty", "scalar"}
    \/ ~file.doc.hasJobs
    \/ ~file.doc.hasRunner
    \/ \E i \in 1..Len(file.doc.jobs) : ~file.doc.jobs[i].hasStatus

\* ... and for /api/pause and /api/resume, which do not look at the jobs
BrokenForPause(file) ==
    \/ file.kind \in {"missing", "unreadable", "invalid", "empty", "scalar"}
    \/ ~file.doc.hasRunner

\* C10: whatever the condition of the state file (missing, unreadable, not
\* JSON, JSON without the expected structure), /api/status, /api/pause and
\* /api/resume answer from the default empty snapshot and never end in an
\* error response or an unhandled exception.
C10_CorruptStateTolerated ==
    [][ /\ hresp' # hresp => hresp'.kind # "exception"
        /\ (hresp' # hresp /\ hresp'.kind = "status" /\ BrokenForStatus(stateFile)) =>
              hresp' = StatusResponse([isObject |-> TRUE, doc |-> DefaultDoc])
        /\ (hpc = "idle" /\ hpc' = "loaded" /\ BrokenForPause(stateFile)) =>
              hstate'.doc = [DefaultDoc EXCEPT !.runner.paused = Target(hop')]
      ]_vars

---------------------------------------------------------------------------
(* Properties of the process supervisor *)

\* C1: when stop_runner returns, no process with the worker's command line
\* is running and the PID file does not exist, whatever the PID file and the
\* process table were when it was called.
C1_StopLeavesNoWorker ==
    [][ (spc = "remove" /\ spc' = "idle") =>
            /\ Workers(procs') = {}
            /\ pidFile'.kind = "missing" ]_vars

\* C2: a start that follows a successful start, with no stop between and the
\* worker of the first still running, returns ok: false and leaves the
\* processes as they are, whether or not that worker has written its PID
\* file yet.
C2_SupervisorSingleton ==
    [][ ( /\ spc = "idle" /\ spc' = "idle"
          /\ sresp' # sresp
          /\ sresp'.op = "start"
          /\ sresp.op = "start" /\ sresp.ok
          /\ procs[sresp.pid] \in WorkerKinds ) =>
            /\ ~sresp'.ok
            /\ procs' = procs ]_vars

\* C13: stop_runner never fails outward: whatever the PID file (missing,
\* not a number, stale, live) and whatever the outcome of the termination
\* attempts, it returns {ok: true, stopped: p}, where p is 0 unless the PID
\* file recorded a pid; and a stop that follows a stop, with no start between,
\* returns {ok: true, stopped: 0}.
C13_StopNeverFails ==
    [][ (spc = "remove" /\ spc' = "idle") =>
            /\ sresp'.op = "stop"
            /\ sresp'.ok
            /\ sresp'.pid # 0 => pidFile.kind = "pid"
            /\ sresp.op = "stop" => sresp'.pid = 0 ]_vars

\* C15: get_runner_pid returns a pid only if the PID file holds that pid and
\* a process runs under it, returns None (0) when the file is missing, not a
\* number or names a pid nothing runs under, and leaves the PID file and
\* every process as they are.
C15_ProbeIsPure ==
    [][ /\ (sresp' # sresp /\ sresp'.op = "probe") =>
              /\ pidFile' = pidFile /\ procs' = procs
              /\ sresp'.pid # 0 =>
                    /\ pidFile = [kind |-> "pid", pid |-> sresp'.pid]
                    /\ procs[sresp'.pid] # "none"
              /\ (pidFile.kind # "pid" \/ procs[pidFile.pid] = "none") =>
                    sresp'.pid = 0
        /\ (spc = "idle" /\ spc' = "pkill") =>
              /\ pidFile' = pidFile /\ procs' = procs
              /\ spid' # 0 =>
                    /\ pidFile = [kind |-> "pid", pid |-> spid']
                    /\ procs[spid'] # "none"
              /\ (pidFile.kind # "pid" \/ procs[pidFile.pid] = "none") =>
                    spid' = 0
      ]_vars

\* a stale PID file has been probed: the answer was None and the file is
\* still there
C15_Witness ==
    /\ sresp.op = "probe" /\ sresp.pid = 0
    /\ pidFile.kind = "pid" /\ procs[pidFile.pid] = "none"

\* C16: restart is stop, then the delay, then start: when start_runner runs
\* its check and launches, the stop has made its kills and no worker that was
\* running when the restart came in is alive, and the response of restart is
\* the result of that start.  (Workers are launched by the handlers only and
\* the server handles one request at a time, so a worker alive at the launch
\* was running when the restart came in.)
C16_RestartOrder ==
    [][ (spc = "sleep" /\ spc' = "idle") =>
            /\ sresp'.op \in {"restart", "exception"}
            /\ sresp'.ok =>
                  /\ procs[sresp'.pid] = "none"
                  /\ procs'[sresp'.pid] = "starting"
                  /\ Workers(procs) = {} ]_vars

\* C18: stop and restart terminate worker instances only: no step of
\* stop_runner ends a process that is not a worker, even when the PID file is
\* stale and its pid has since been taken by an unrelated process.
C18_KillsOnlyWorkers ==
    [][ spc' # spc =>
            \A p \in Pids : procs[p] \in OtherKinds => procs'[p] = procs[p] ]_vars

\* C20: start_runner refuses only when a worker is running: with no worker
\* process alive (and a pid free for the new one) /api/runner/start launches
\* a worker and returns {ok: true, pid}, also when a leftover PID file names a
\* pid now taken by an unrelated process; and a start that follows a stop
\* launches unless a worker is running.
C20_StartRefusesOnlyRunning ==
    [][ ( /\ spc = "idle" /\ spc' = "idle"
          /\ sresp' # sresp
          /\ sresp'.op \in {"start", "exception"}
          /\ Workers(procs) = {}
          /\ \E p \in Pids : procs[p] = "none" ) =>
            /\ sresp'.op = "start"
            /\ sresp'.ok
            /\ procs[sresp'.pid] = "none"
            /\ procs'[sresp'.pid] = "starting" ]_vars

---------------------------------------------------------------------------
(* Properties of read_config *)

\* the value less one pair of identical quotes around it, if it has one
OneLayerStripped(val) ==
    IF Len(val) >= 2 /\ val[1] \in {DQ, SQ} /\ val[Len(val)] = val[1]
    THEN SubSeq(val, 2, Len(val) - 1)
    ELSE val

\* C17: read_config strips exactly one layer of matching quotes from a
\* value: "v" and 'v' are returned as v, and quote characters that are
\* unmatched, mismatched or of a further inner layer stay in the value
\* returned.
C17_OneQuoteLayer ==
    fnLast.op = "read" =>
        DictGet(fnLast.updates, <<"A">>) = OneLayerStripped(RawValue(fnLast.before))

---------------------------------------------------------------------------
(* Properties of POST /api/config *)

\* the internal keys a body's members name
InternalKeys(members) ==
    { IF \E i \in 1..Len(key_map) : key_map[i].k = members[m].k
      THEN key_map[CHOOSE i \in 1..Len(key_map) : key_map[i].k = members[m].k].v
      ELSE members[m].k : m \in 1..Len(members) }

---------------------------------------------------------------------------
(* Properties of the ETA of /api/status *)

\* the jobs done that carry both times
TimedDone(doc) ==
    {i \in 1..Len(doc.jobs) :
        /\ doc.jobs[i].status = "done"
        /\ doc.jobs[i].started.kind # "absent"
        /\ doc.jobs[i].updated.kind # "absent"}

\* C11: when no job of the state document is done with both a started and an
\* updated time, the /api/status response has no eta member at all.
C11_EtaOmitted ==
    (hresp.kind = "status" /\ TimedDone(stateFile.doc) = {}) =>
        "eta" \notin DOMAIN hresp

\* the jobs done whose two times parse
ParsedDone(doc) ==
    {i \in 1..Len(doc.jobs) :
        /\ doc.jobs[i].status = "done"
        /\ doc.jobs[i].started.kind = "time"
        /\ doc.jobs[i].updated.kind = "time"}

RECURSIVE ElapsedOver(_, _)
ElapsedOver(doc, S) ==
    IF S = {} THEN 0
    ELSE LET i == CHOOSE x \in S : TRUE
         IN  (doc.jobs[i].updated.t - doc.jobs[i].started.t) + ElapsedOver(doc, S \ {i})

SessionDone(doc) ==
    Cardinality({i \in 1..Len(doc.jobs) : doc.jobs[i].status \in {"done", "skipped"}})

\* the arithmetic of C12 on the eta of a response
EtaArithmetic(doc, eta) ==
    LET n == Cardinality(ParsedDone(doc))
        total == ElapsedOver(doc, ParsedDone(doc))
        dest == IF doc.inventory.present /\ doc.inventory.hasDestDone
                THEN doc.inventory.dest_done ELSE 0
        src == IF doc.inventory.present /\ doc.inventory.hasSourceTotal
               THEN doc.inventory.source_total ELSE 0
    IN  /\ {"avg_per_file_secs", "completed", "remaining"} \subseteq DOMAIN eta
        /\ 2 * n * eta.avg_per_file_secs - 2 * total \in (0 - n)..n
        /\ eta.completed = dest + SessionDone(doc)
        /\ eta.remaining = IF src = 0 \/ src < eta.completed THEN 0
                           ELSE src - eta.completed

---------------------------------------------------------------------------
(* Properties of /api/pause and /api/resume on the document *)

\* C19: /api/pause and /api/resume change runner.paused only: the document
\* they go on to write is the one on disk with runner.paused set, and a state
\* file that is present but cannot be parsed (such as one read while the
\* pipeline is writing it) is not taken for the default document and written
\* over.
C19_PauseChangesOnlyPaused ==
    [][ (hpc = "idle" /\ hpc' = "loaded") =>
            /\ stateFile.kind \in {"object", "missing"}
            /\ stateFile.kind = "object" =>
                  hstate'.doc = [stateFile.doc EXCEPT !.runner.paused = Target(hop')]
      ]_vars

====
